---- MODULE Spec2Model ----
(***************************************************************************)
(* ItemIdentifier: a plugin that overlays abbreviated tag badges on the    *)
(* item cells of the inventory, bank and shop tables.                      *)
(*                                                                         *)
(* The module models the later revision of the plugin (the one with the    *)
(* "Show Where" setting): the name classifier deriveTag as a pure          *)
(* operator over strings, and the overlay reconciler (start, stop,         *)
(* rescanSoon, rescan, applyTag) as a state machine over the plugin's      *)
(* fields, the browser's animation-frame callback map, the external        *)
(* change sources and the part of the document the plugin reads or writes. *)
(*                                                                         *)
(* Strings are TLA+ strings; a character is a string of length 1.  The     *)
(* JavaScript values null and undefined of a string-valued expression are  *)
(* both written "" here: every place the source consumes such a value      *)
(* tests only its truthiness (!tag, !name, v || null, a || b).             *)
(***************************************************************************)
EXTENDS Integers, Sequences, FiniteSets, TLC

(***************************************************************************)
(* Strings                                                                 *)
(***************************************************************************)

\* The characters \s matches that can occur in an item name.
Whitespace == {" ", "\t"}

Digits == {"0", "1", "2", "3", "4", "5", "6", "7", "8", "9"}

CharAt(s, i) == SubSeq(s, i, i)

\* String.prototype.toLowerCase, on one character.
LowerChar(c) ==
  CASE c = "A" -> "a" [] c = "B" -> "b" [] c = "C" -> "c" [] c = "D" -> "d"
    [] c = "E" -> "e" [] c = "F" -> "f" [] c = "G" -> "g" [] c = "H" -> "h"
    [] c = "I" -> "i" [] c = "J" -> "j" [] c = "K" -> "k" [] c = "L" -> "l"
    [] c = "M" -> "m" [] c = "N" -> "n" [] c = "O" -> "o" [] c = "P" -> "p"
    [] c = "Q" -> "q" [] c = "R" -> "r" [] c = "S" -> "s" [] c = "T" -> "t"
    [] c = "U" -> "u" [] c = "V" -> "v" [] c = "W" -> "w" [] c = "X" -> "x"
    [] c = "Y" -> "y" [] c = "Z" -> "z" [] OTHER -> c

\* String.prototype.toUpperCase, on one character.
UpperChar(c) ==
  CASE c = "a" -> "A" [] c = "b" -> "B" [] c = "c" -> "C" [] c = "d" -> "D"
    [] c = "e" -> "E" [] c = "f" -> "F" [] c = "g" -> "G" [] c = "h" -> "H"
    [] c = "i" -> "I" [] c = "j" -> "J" [] c = "k" -> "K" [] c = "l" -> "L"
    [] c = "m" -> "M" [] c = "n" -> "N" [] c = "o" -> "O" [] c = "p" -> "P"
    [] c = "q" -> "Q" [] c = "r" -> "R" [] c = "s" -> "S" [] c = "t" -> "T"
    [] c = "u" -> "U" [] c = "v" -> "V" [] c = "w" -> "W" [] c = "x" -> "X"
    [] c = "y" -> "Y" [] c = "z" -> "Z" [] OTHER -> c

RECURSIVE toLowerCase(_)
toLowerCase(s) ==
  IF Len(s) = 0 THEN "" ELSE LowerChar(CharAt(s, 1)) \o toLowerCase(Tail(s))

RECURSIVE toUpperCase(_)
toUpperCase(s) ==
  IF Len(s) = 0 THEN "" ELSE UpperChar(CharAt(s, 1)) \o toUpperCase(Tail(s))

RECURSIVE trimStart(_)
trimStart(s) ==
  IF Len(s) > 0 /\ CharAt(s, 1) \in Whitespace THEN trimStart(Tail(s)) ELSE s

RECURSIVE trimEnd(_)
trimEnd(s) ==
  IF Len(s) > 0 /\ CharAt(s, Len(s)) \in Whitespace
  THEN trimEnd(SubSeq(s, 1, Len(s) - 1))
  ELSE s

\* String.prototype.trim
trim(s) == trimEnd(trimStart(s))

\* String.prototype.slice(from) and slice(0, to), with 0-based bounds as in
\* the source.
sliceFrom(s, from) == SubSeq(s, from + 1, Len(s))
sliceTo(s, to) == SubSeq(s, 1, IF to < Len(s) THEN to ELSE Len(s))

startsWith(s, p) == Len(s) >= Len(p) /\ SubSeq(s, 1, Len(p)) = p
endsWith(s, p) == Len(s) >= Len(p) /\ SubSeq(s, Len(s) - Len(p) + 1, Len(s)) = p

\* The part of s before its last k characters.
DropLast(s, k) == SubSeq(s, 1, Len(s) - k)

RECURSIVE AllDigits(_)
AllDigits(s) ==
  Len(s) = 0 \/ (CharAt(s, 1) \in Digits /\ AllDigits(Tail(s)))

\* Position of the last "(" of s, 0 if there is none.
RECURSIVE LastOpenParen(_)
LastOpenParen(s) ==
  IF Len(s) = 0 THEN 0
  ELSE IF CharAt(s, Len(s)) = "(" THEN Len(s)
  ELSE LastOpenParen(DropLast(s, 1))

\* A lookup in a Record<string, string>: the value, or "" (undefined).
Lookup(table, k) == IF k \in DOMAIN table THEN table[k] ELSE ""

\* a || b on strings.
Or(a, b) == IF a # "" THEN a ELSE b

\* function capitalize3(s)
capitalize3(s) ==
  LET t == trim(s) IN
  IF t = "" THEN ""
  ELSE LET seg == sliceTo(t, 3) IN
       UpperChar(CharAt(seg, 1)) \o toLowerCase(sliceFrom(seg, 1))

\* tag.split(/\s+/): the tokens between the whitespace runs of s; a leading or
\* trailing run leaves an empty first or last token.
RECURSIVE splitWs(_, _)
splitWs(s, cur) ==
  IF Len(s) = 0 THEN <<cur>>
  ELSE IF CharAt(s, 1) \in Whitespace
       THEN <<cur>> \o splitWs(trimStart(s), "")
       ELSE splitWs(Tail(s), cur \o CharAt(s, 1))

RECURSIVE join(_, _)
join(toks, sep) ==
  IF Len(toks) = 0 THEN ""
  ELSE IF Len(toks) = 1 THEN toks[1]
  ELSE toks[1] \o sep \o join(Tail(toks), sep)

formatTok(tok) ==
  IF tok = "" THEN tok
  ELSE IF startsWith(tok, "(") THEN tok
  ELSE UpperChar(CharAt(tok, 1)) \o toLowerCase(sliceFrom(tok, 1))

\* private formatTag(tag)
formatTag(tag) ==
  LET toks == splitWs(tag, "") IN
  join([i \in 1..Len(toks) |-> formatTok(toks[i])], " ")

(***************************************************************************)
(* State                                                                   *)
(***************************************************************************)
VARIABLES
  settings,       \* this.settings: the value of every setting
  started,        \* this.started
  styleEl,        \* this.styleEl is not null
  observer,       \* this.observer: "null", or the root it observes
  rafId,          \* this.rafId: 0 for null, else the last handle stored
  unsubscribers,  \* this.unsubscribers: the release closures, in push order
  rafCallbacks,   \* browser: handles in the animation frame callback map
  headStyles,     \* document: style[data-item-identifier-style] elements in head
  connected,      \* browser: MutationObservers of the plugin that are connected
  records,        \* browser: the observer has mutation records to deliver
  hooks,          \* gameHooks: the subscription shape of every change source
  sheet,          \* document: the position the style sheets give each host
  listeners,      \* change sources: callbacks of the plugin registered with each
  slots,          \* game state: the item held by the slot of each cell
  dom,            \* document: the subtree of each item cell
  hist            \* what the last step did (for stating the properties)

vars == <<settings, started, styleEl, observer, rafId, unsubscribers,
          rafCallbacks, headStyles, connected, records, hooks, sheet, listeners,
          slots, dom, hist>>

(***************************************************************************)
(* Name classifier                                                         *)
(***************************************************************************)

\* deriveTag's parameter allowed when the caller passes none.
Undefined == {"undefined"}

\* allowed && !allowed.has(cat)
Filtered(allowed, cat) == allowed # Undefined /\ cat \notin allowed

DARK ==
  [k \in {"coronium chainmail body", "coronium chestplate", "coronium platelegs",
          "coronium helm", "coronium full helm", "coronium gloves",
          "coronium hatchet", "coronium pickaxe", "coronium scimitar",
          "coronium longsword", "coronium battleaxe", "bandit mask",
          "black leather gloves", "damogui's staff"} |->
     CASE k = "coronium chainmail body" -> "C Chain"
       [] k = "coronium chestplate" -> "C Plate"
       [] k = "coronium platelegs" -> "C Legs"
       [] k = "coronium helm" -> "C Helm"
       [] k = "coronium full helm" -> "C Fhelm"
       [] k = "coronium gloves" -> "C Glove"
       [] k = "coronium hatchet" -> "C Axe"
       [] k = "coronium pickaxe" -> "C Pick"
       [] k = "coronium scimitar" -> "C Scim"
       [] k = "coronium longsword" -> "C Long"
       [] k = "coronium battleaxe" -> "C Baxe"
       [] k = "bandit mask" -> "B Mask"
       [] k = "black leather gloves" -> "B Glove"
       [] k = "damogui's staff" -> "Damo"]

MANUAL ==
  [logs |-> ("reg" :> "Norm") @@ ("lucky" :> "Luck") @@ ("pine" :> "Pine")
            @@ ("deadwood" :> "Dead") @@ ("cherry" :> "Cher") @@ ("palm" :> "Palm"),
   scroll |-> ("reg" :> "Norm") @@ ("lucky" :> "Luck") @@ ("pine" :> "Pine")
            @@ ("deadwood" :> "Dead") @@ ("palm" :> "Palm"),
   bow |-> ("pine" :> "Pine") @@ ("deadwood" :> "Dead") @@ ("cherry" :> "Cher")
            @@ ("wooden" :> "Wood") @@ ("palm" :> "Palm"),
   root |-> ("fiji" :> "Fiji") @@ ("maui" :> "Maui") @@ ("sardinian" :> "Sard")
            @@ ("grenada" :> "Gren"),
   potion |-> ("fishing" :> "Fish") @@ ("stamina" :> "Stam") @@ ("mining" :> "Mine")
            @@ ("smithing" :> "Smth") @@ ("mischief" :> "Crim")]

\* applyManualFor looking the key up as given, not lower-cased.
applyManualForExact(cat, k) == Lookup(MANUAL[cat], k)

applyManualFor(cat, k) == Lookup(MANUAL[cat], toLowerCase(k))

SCROLL_MAGICAL ==
  ("fire" :> "Fire") @@ ("water" :> "Wat") @@ ("nature" :> "Nat")
  @@ ("fury" :> "Fury") @@ ("rage" :> "Rage") @@ ("blood" :> "Bld")
  @@ ("alchemy" :> "Alch") @@ ("energy" :> "En") @@ ("warp" :> "Warp")
  @@ ("magic" :> "Mag")

POTION_MAP ==
  ("defense" :> "Def") @@ ("stamina" :> "Stam") @@ ("mining" :> "Mine")
  @@ ("smithing" :> "Smth") @@ ("lucky" :> "Luck") @@ ("sardinian" :> "Sard")

GEM_MAP ==
  ("amethyst" :> "Am") @@ ("sapphire" :> "Sap") @@ ("emerald" :> "Em")
  @@ ("ruby" :> "Ruby") @@ ("citrine" :> "Cit") @@ ("diamond" :> "Dia")
  @@ ("carbonado" :> "Carb")

oreMap ==
  ("coal" :> "Coal") @@ ("iron" :> "Iron") @@ ("coronium" :> "Coro")
  @@ ("celadium" :> "Cela") @@ ("gold" :> "Gold") @@ ("silver" :> "Silv")

barMap ==
  ("iron" :> "Iron") @@ ("coronium" :> "Coro") @@ ("celadium" :> "Cela")
  @@ ("gold" :> "Gold") @@ ("silver" :> "Silv")

RECURSIVE AllWs(_)
AllWs(s) == Len(s) = 0 \/ (CharAt(s, 1) \in Whitespace /\ AllWs(Tail(s)))

\* /^(.+?)\s+<word>$/i matches n: the text before the word has a character
\* and then a whitespace run.  The group, trimmed, is SuffixGroup.
SuffixMatch(n, word) ==
  /\ endsWith(toLowerCase(n), word)
  /\ Len(n) >= Len(word) + 2
  /\ CharAt(n, Len(n) - Len(word)) \in Whitespace
SuffixGroup(n, word) == trim(DropLast(n, Len(word)))

\* /^potion of\s+(.+?)\s*\((\d+)\)$/i
potionMatch(n) ==
  LET p == LastOpenParen(n)
      mid == SubSeq(n, 10, p - 1)
      doses == SubSeq(n, p + 1, Len(n) - 1)
  IN /\ startsWith(toLowerCase(n), "potion of")
     /\ endsWith(n, ")")
     /\ p > 10
     /\ Len(doses) >= 1 /\ AllDigits(doses)
     /\ Len(mid) >= 2 /\ CharAt(mid, 1) \in Whitespace
potionType(n) == trim(SubSeq(n, 10, LastOpenParen(n) - 1))
potionDoses(n) == SubSeq(n, LastOpenParen(n) + 1, Len(n) - 1)

\* /^(.*?)\s*logs$/i
logsMatch(n) == endsWith(toLowerCase(n), "logs")

\* /^(.*?)\s+root(s)?$/i : the suffix matched, "" if none
rootSuffix(n) ==
  LET l == toLowerCase(n) IN
  IF endsWith(l, "root") /\ Len(n) >= 5 /\ CharAt(n, Len(n) - 4) \in Whitespace
  THEN "root"
  ELSE IF endsWith(l, "roots") /\ Len(n) >= 6 /\ CharAt(n, Len(n) - 5) \in Whitespace
  THEN "roots"
  ELSE ""

\* The pattern of the earlier revision, /^(.*?)\s*scrolls$/i.
scrollMatchPlural(n) == endsWith(toLowerCase(n), "scrolls")

\* /^(.*?)\s*scroll$/i
scrollMatch(n) == endsWith(toLowerCase(n), "scroll")

\* /^(unstrung\s+)?(.+?)\s+bow$/i : group 1 takes part in the match when a
\* whitespace run, a character and a whitespace run lie between it and bow.
bowMatch(n) == SuffixMatch(n, "bow")
bowUnstrung(n) ==
  LET s == SubSeq(n, 9, Len(n) - 3) IN
  /\ startsWith(toLowerCase(n), "unstrung")
  /\ Len(s) >= 3
  /\ CharAt(s, 1) \in Whitespace
  /\ CharAt(s, Len(s)) \in Whitespace
bowType(n) ==
  IF bowUnstrung(n) THEN trim(SubSeq(n, 9, Len(n) - 3)) ELSE SuffixGroup(n, "bow")

\* /^(silver|gold)\s+nugget$/i : the metal matched, "" if none
nuggetMetal(n) ==
  LET l == toLowerCase(n)
      m == IF startsWith(l, "silver") THEN "silver"
           ELSE IF startsWith(l, "gold") THEN "gold" ELSE ""
      gap == SubSeq(l, Len(m) + 1, Len(l) - 6)
  IN IF m # "" /\ endsWith(l, "nugget") /\ Len(gap) >= 1 /\ AllWs(gap)
     THEN m ELSE ""

\* /^pig\s+iron\s+bar$/i
pigIronBar(n) == splitWs(toLowerCase(n), "") = <<"pig", "iron", "bar">>

\* /monk'?s\s+necklace$/i (not anchored at the start)
monkNecklace(n) ==
  LET l == toLowerCase(n)
      before == DropLast(l, 8)
      b == trimEnd(before)
  IN /\ endsWith(l, "necklace")
     /\ Len(b) < Len(before)
     /\ (endsWith(b, "monks") \/ endsWith(b, "monk's"))

\* /^(silver|gold)\s+(.+?)\s+(necklace)$/i : the metal matched, "" if none
jewMetal(n) ==
  LET l == toLowerCase(n)
      m == IF startsWith(l, "silver") THEN "silver"
           ELSE IF startsWith(l, "gold") THEN "gold" ELSE ""
      s == SubSeq(n, Len(m) + 1, Len(n) - 8)
  IN IF /\ m # "" /\ endsWith(l, "necklace") /\ Len(s) >= 3
        /\ CharAt(s, 1) \in Whitespace /\ CharAt(s, Len(s)) \in Whitespace
     THEN m ELSE ""
jewMid(n) == trim(SubSeq(n, Len(jewMetal(n)) + 1, Len(n) - 8))

\* /^rough\s+(.+)$/i
roughMatch(n) ==
  startsWith(toLowerCase(n), "rough") /\ Len(n) >= 7 /\ CharAt(n, 6) \in Whitespace
roughGem(n) == trim(SubSeq(n, 7, Len(n)))

\* The ore rule of deriveTag: whether it returns, and what.
oreRule(n, allowed) ==
  IF ~settings.showOres THEN <<FALSE, "">>
  ELSE IF Filtered(allowed, "ore") THEN <<TRUE, "">>
  ELSE IF toLowerCase(n) = "coal" THEN <<TRUE, "Coal">>
  ELSE IF nuggetMetal(n) = "gold" THEN <<TRUE, "Gold">>
  ELSE IF nuggetMetal(n) = "silver" THEN <<TRUE, "Silv">>
  ELSE IF SuffixMatch(n, "ore")
  THEN <<TRUE, Or(Lookup(oreMap, toLowerCase(SuffixGroup(n, "ore"))),
                  capitalize3(SuffixGroup(n, "ore")))>>
  ELSE <<FALSE, "">>

\* The bar rule.
barRule(n, allowed) ==
  IF ~settings.showBars THEN <<FALSE, "">>
  ELSE IF Filtered(allowed, "bar") THEN <<TRUE, "">>
  ELSE IF pigIronBar(n) THEN <<TRUE, "">>
  ELSE IF SuffixMatch(n, "bar")
  THEN <<TRUE, Or(Lookup(barMap, toLowerCase(SuffixGroup(n, "bar"))),
                  capitalize3(SuffixGroup(n, "bar")))>>
  ELSE <<FALSE, "">>

\* The jewelry rule.
jewelryRule(n, allowed) ==
  IF ~settings.showJewelry THEN <<FALSE, "">>
  ELSE IF Filtered(allowed, "jewelry") THEN <<TRUE, "">>
  ELSE IF monkNecklace(n) THEN <<TRUE, "Monk">>
  ELSE IF jewMetal(n) # ""
  THEN <<TRUE, Or(Lookup(GEM_MAP, toLowerCase(jewMid(n))), capitalize3(jewMid(n)))
               \o " " \o (IF jewMetal(n) = "silver" THEN "(s)" ELSE "(g)")>>
  ELSE <<FALSE, "">>

\* The gem rule entered whatever the value of showGems.
gemRuleUnflagged(n, allowed) ==
  IF Filtered(allowed, "gem") THEN <<TRUE, "">>
  ELSE IF roughMatch(n)
  THEN <<TRUE, Or(Lookup(GEM_MAP, toLowerCase(roughGem(n))), capitalize3(roughGem(n)))>>
  ELSE IF SuffixMatch(n, "gem")
  THEN <<TRUE, Or(Lookup(GEM_MAP, toLowerCase(SuffixGroup(n, "gem"))),
                  capitalize3(SuffixGroup(n, "gem")))>>
  ELSE <<FALSE, "">>

\* The gem rule.
gemRule(n, allowed) ==
  IF ~settings.showGems THEN <<FALSE, "">>
  ELSE IF Filtered(allowed, "gem") THEN <<TRUE, "">>
  ELSE IF roughMatch(n)
  THEN <<TRUE, Or(Lookup(GEM_MAP, toLowerCase(roughGem(n))), capitalize3(roughGem(n)))>>
  ELSE IF SuffixMatch(n, "gem")
  THEN <<TRUE, Or(Lookup(GEM_MAP, toLowerCase(SuffixGroup(n, "gem"))),
                  capitalize3(SuffixGroup(n, "gem")))>>
  ELSE <<FALSE, "">>

\* The rules of deriveTag after the bow rule, in the order of the source.
deriveTail(n, allowed) ==
  IF oreRule(n, allowed)[1] THEN oreRule(n, allowed)[2]
  ELSE IF barRule(n, allowed)[1] THEN barRule(n, allowed)[2]
  ELSE IF jewelryRule(n, allowed)[1] THEN jewelryRule(n, allowed)[2]
  ELSE IF gemRule(n, allowed)[1] THEN gemRule(n, allowed)[2]
  ELSE ""

\* private deriveTag(name, allowed): the tag, "" for null
deriveTag(name, allowed) ==
  LET n == trim(name)
      hit == IF settings.showDarkItems /\ ~Filtered(allowed, "dark")
             THEN Lookup(DARK, toLowerCase(n)) ELSE ""
  IN
  IF hit # "" THEN hit
  ELSE IF potionMatch(n) /\ settings.showPotions
  THEN IF Filtered(allowed, "potion") THEN ""
       ELSE LET type == potionType(n)
                mapped == Or(Lookup(POTION_MAP, toLowerCase(type)),
                             Or(applyManualFor("potion", type), capitalize3(type)))
            IN mapped \o " (" \o potionDoses(n) \o ")"
  ELSE IF logsMatch(n) /\ settings.showLogs
  THEN IF Filtered(allowed, "logs") THEN ""
       ELSE LET prefix == trim(DropLast(n, 4)) IN
            IF prefix = "" THEN "Norm"
            ELSE Or(applyManualFor("logs", prefix), capitalize3(prefix))
  ELSE IF rootSuffix(n) # "" /\ settings.showRoots
  THEN IF Filtered(allowed, "root") THEN ""
       ELSE LET prefix == trim(DropLast(n, Len(rootSuffix(n)))) IN
            IF prefix = "" THEN "Norm"
            ELSE Or(applyManualFor("root", prefix), capitalize3(prefix))
  ELSE IF scrollMatch(n) /\ settings.showScrolls
  THEN IF Filtered(allowed, "scroll") THEN ""
       ELSE LET prefix == trim(DropLast(n, 6)) IN
            IF Lookup(SCROLL_MAGICAL, toLowerCase(prefix)) # ""
            THEN IF settings.ignoreMagicalScrolls THEN ""
                 ELSE Lookup(SCROLL_MAGICAL, toLowerCase(prefix))
            ELSE IF prefix = "" THEN "Norm"
            ELSE Or(applyManualFor("scroll", prefix), capitalize3(prefix))
  ELSE IF settings.showBows /\ bowMatch(n)
  THEN IF Filtered(allowed, "bow") THEN ""
       ELSE LET type == bowType(n)
                base == Or(applyManualFor("bow", type), capitalize3(type))
            IN IF bowUnstrung(n) THEN base \o " (u)" ELSE base
  ELSE deriveTail(n, allowed)

(***************************************************************************)
(* The document and the game state                                         *)
(*                                                                         *)
(* A cell is named by the table it lies in ("inventory", "bank", "shop");  *)
(* the model holds at most one cell of each table.  dom[c] is the cell's   *)
(* subtree:                                                                *)
(*   slot      the cell carries a non-empty data-slot attribute            *)
(*   hasItem   the cell holds an .hs-inventory-item element                *)
(*   amountAt  the parent of the cell's .hs-inventory-item__amount element *)
(*             ("cell" or "item"), "none" if the cell has no amount        *)
(*   badges    per element ("cell", "item"): its badge children            *)
(*             (.hs-inventory-item__tag[data-hs-tag-overlay]), in order    *)
(*   position  per element: its inline style.position ("" if unset)        *)
(* A badge is [text, typo]: its textContent and the typography copied to   *)
(* its inline style ("" if none was copied).                               *)
(***************************************************************************)

Tables == <<"inventory", "bank", "shop">>

Hosts == {"cell", "item"}

\* The cells of the document, in document order.
cellsOf(d) == SelectSeq(Tables, LAMBDA t : t \in DOMAIN d)

\* The typography getComputedStyle reports for an amount element.
AmountTypography == "amount"

\* getComputedStyle(host).position
computedPosition(d, c, host) ==
  IF d[c].position[host] # "" THEN d[c].position[host] ELSE sheet[host]

\* Items of the game state.  null marks the absence of an item; the other
\* fields are the name fields resolveItemName reads ("" when absent) and
\* the item's _id (0 when absent).
Item(defCap, defName, cap, name, id) ==
  [null |-> FALSE, defCap |-> defCap, defName |-> defName, cap |-> cap,
   name |-> name, id |-> id]
NoItem ==
  [null |-> TRUE, defCap |-> "", defName |-> "", cap |-> "", name |-> "", id |-> 0]

ItemLogs == Item("Pine Logs", "pine logs", "", "", 0)
ItemPotion == Item("", "", "", " Potion of Fishing (4)", 0)
ItemHelm == Item("", "", "", "", 7)
ItemSword == Item("", "Bronze Sword", "", "", 0)
ItemNameless == Item("", "", "", "", 9)

Items == {NoItem, ItemLogs, ItemPotion, ItemHelm, ItemSword, ItemNameless}

\* document.highlite.gameHooks.ItemDefinitionManager._itemDefMap
ItemDefMap == (7 :> "coronium full helm")

(***************************************************************************)
(* The plugin's operations, as functions of the world they act on.  A      *)
(* world w holds the plugin's fields, the browser state and the document;  *)
(* threw says that an exception is propagating out of the operation, and   *)
(* writes and calls log the DOM writes and the release calls made.         *)
(***************************************************************************)

World ==
  [settings |-> settings, started |-> started, styleEl |-> styleEl, observer |-> observer,
   rafId |-> rafId, unsubscribers |-> unsubscribers,
   rafCallbacks |-> rafCallbacks, headStyles |-> headStyles,
   connected |-> connected, records |-> records, listeners |-> listeners,
   dom |-> dom, reqs |-> hist.reqs, threw |-> FALSE, failed |-> {},
   writes |-> {}, calls |-> 0, scans |-> 0]

\* A mutation under cell c reaches the observer when its root is the
\* cell's table or document.body.
Observed(w, c) == w.observer \in {c, "body"}

\* A DOM write to cell c of the kind given: the new subtree, the log, and
\* the mutation record when the write is one the observer is told of
\* (child-list changes; the style attribute is outside its filter).
Write(w, c, kind, sub) ==
  [w EXCEPT !.dom[c] = sub,
            !.writes = @ \cup {kind},
            !.records = @ \/ (kind \in {"create", "remove", "text"} /\ Observed(w, c))]

\* private getTagHost(cell)
getTagHost(d, c) ==
  IF d[c].amountAt # "none" THEN d[c].amountAt
  ELSE IF d[c].hasItem THEN "item"
  ELSE "cell"

\* removeBadge emptying the host (host.replaceChildren()) instead of removing
\* the badge alone: the amount element goes with it.
removeBadgeClearingHost(w, c) ==
  LET host == getTagHost(w.dom, c)
      kids == w.dom[c].badges[host]
  IN IF Len(kids) > 0
     THEN Write(w, c, "remove",
                [w.dom[c] EXCEPT !.badges[host] = <<>>,
                                 !.amountAt = IF @ = host THEN "none" ELSE @])
     ELSE w

\* private removeBadge(cell)
removeBadge(w, c) ==
  LET host == getTagHost(w.dom, c)
      kids == w.dom[c].badges[host]
  IN IF Len(kids) > 0
     THEN Write(w, c, "remove", [w.dom[c] EXCEPT !.badges[host] = Tail(kids)])
     ELSE w

\* private resolveItemFromCell(cell, slotId)
resolveItemFromCell(c) ==
  IF ~hooks.em THEN NoItem ELSE slots[c]

\* private resolveItemName(item): the trimmed name, "" for null
resolveItemName(item) ==
  LET raw == Or(Or(item.defCap, item.defName), Or(item.cap, item.name))
      raw2 == IF raw = "" /\ item.id # 0 THEN Lookup(ItemDefMap, item.id) ELSE raw
  IN trim(raw2)

\* An amount element under the host, else any amount element of the document.
amountFor(d, c, host) ==
  \/ d[c].amountAt = host
  \/ (host = "cell" /\ d[c].amountAt # "none")
  \/ \E c2 \in DOMAIN d : d[c2].amountAt # "none"

\* private syncBadgeTypography(host, badge), the badge being the host's first
syncBadgeTypography(w, c, host) ==
  IF amountFor(w.dom, c, host)
  THEN Write(w, c, "style",
             [w.dom[c] EXCEPT !.badges[host][1].typo = AmountTypography])
  ELSE w

\* The allowed set applyTag passes to deriveTag for cell c.
allowedFor(c) ==
  IF settings.showWhere = "Bank+Bag(Gear Only)" /\ c \in {"inventory", "shop"}
  THEN {"dark", "jewelry", "potion"}
  ELSE Undefined

Throw(w) == [w EXCEPT !.threw = TRUE]

\* updateBadge assigning the text on every scan (badge.textContent =
\* displayTag without the comparison): the assignment replaces the badge's
\* text node, a child-list change.
updateBadgeUnguarded(w, c, tag, fault) ==
  LET host == getTagHost(w.dom, c)
      fresh == Len(w.dom[c].badges[host]) = 0
      w1 == IF fresh /\ computedPosition(w.dom, c, host) = "static"
            THEN Write(w, c, "position", [w.dom[c] EXCEPT !.position[host] = "relative"])
            ELSE w
      w2 == IF fresh
            THEN Write(w1, c, "create",
                       [w1.dom[c] EXCEPT !.badges[host] = <<[text |-> "", typo |-> ""]>>])
            ELSE w1
      w3 == syncBadgeTypography(w2, c, host)
  IN IF fresh /\ fault = "append" THEN Throw(w1)
     ELSE IF fault = "text" THEN Throw(w3)
     ELSE Write(w3, c, "text",
                [w3.dom[c] EXCEPT !.badges[host][1].text = formatTag(tag)])

\* applyTag from the host lookup on (lines 335-355), for a tag that is set.
updateBadge(w, c, tag, fault) ==
  LET host == getTagHost(w.dom, c)
      fresh == Len(w.dom[c].badges[host]) = 0
      w1 == IF fresh /\ computedPosition(w.dom, c, host) = "static"
            THEN Write(w, c, "position", [w.dom[c] EXCEPT !.position[host] = "relative"])
            ELSE w
      w2 == IF fresh
            THEN Write(w1, c, "create",
                       [w1.dom[c] EXCEPT !.badges[host] = <<[text |-> "", typo |-> ""]>>])
            ELSE w1
      w3 == syncBadgeTypography(w2, c, host)
      displayTag == formatTag(tag)
  IN IF fresh /\ fault = "append" THEN Throw(w1)
     ELSE IF fault = "text" THEN Throw(w3)
     ELSE IF w3.dom[c].badges[host][1].text # displayTag
          THEN Write(w3, c, "text",
                     [w3.dom[c] EXCEPT !.badges[host][1].text = displayTag])
          ELSE w3

\* The body of applyTag's try block.  fault names the step that throws for
\* this cell in this scan, "none" if none does.
applyTagBody(w, c, fault) ==
  IF ~w.dom[c].slot THEN removeBadge(w, c)
  ELSE IF fault = "item" THEN Throw(w)
  ELSE LET item == resolveItemFromCell(c) IN
  IF item.null THEN removeBadge(w, c)
  ELSE IF fault = "name" THEN Throw(w)
  ELSE LET name == resolveItemName(item) IN
  IF name = "" THEN removeBadge(w, c)
  ELSE IF settings.showWhere = "Bank Only" /\ c \in {"inventory", "shop"}
  THEN removeBadge(w, c)
  ELSE IF fault = "classify" THEN Throw(w)
  ELSE LET tag == deriveTag(name, allowedFor(c)) IN
  IF tag = "" THEN removeBadge(w, c)
  ELSE updateBadge(w, c, tag, fault)

\* applyTag without its try/catch: what the body throws leaves applyTag.
applyTagNoCatch(w, c, fault) ==
  LET r == applyTagBody(w, c, fault) IN
  [r EXCEPT !.failed = IF r.threw THEN @ \cup {c} ELSE @]

\* private applyTag(cell): the try block, and the catch that swallows
applyTag(w, c, fault) ==
  LET r == applyTagBody(w, c, fault) IN
  [r EXCEPT !.threw = FALSE, !.failed = IF r.threw THEN @ \cup {c} ELSE @]

\* querySelectorAll(...).forEach((el) => this.applyTag(el)): an exception
\* leaving the callback ends the iteration.
RECURSIVE forEachCell(_, _, _)
forEachCell(w, cs, faults) ==
  IF Len(cs) = 0 \/ w.threw THEN w
  ELSE forEachCell(applyTag(w, Head(cs), faults[Head(cs)]), Tail(cs), faults)

\* private rescan()
rescan(w, faults) ==
  LET w1 == [w EXCEPT !.scans = @ + 1] IN
  IF ~w.settings.enable THEN w1
  ELSE forEachCell(w1, cellsOf(w.dom), faults)

(***************************************************************************)
(* Lifecycle                                                               *)
(***************************************************************************)

\* The channels a callback can be registered with: the inventory's
\* OnInventoryChangeListener, the inventory object itself, the two
\* listeners of BankStorageItems, _bankItems and _shopItems.
Channels == {"invListener", "inv", "bankChange", "bankReorg", "bankItems", "shop"}

\* Shapes of a listener object: with add and remove, with add alone, or
\* without add.
ListenerShapes == {"addRemove", "addOnly", "absent"}

\* Shapes of an object handed to trySubscribe: missing; OnChange or
\* OnItemsChanged with Subscribe (and with or without Unsubscribe); on and
\* off; on alone; addEventListener and removeEventListener; none of these.
SubscribeShapes ==
  {"null", "OnChange", "OnChangeNoUnsub", "OnItemsChanged", "OnItemsChangedNoUnsub",
   "emitter", "onOnly", "eventTarget", "none"}

\* The shapes under which a callback gets registered, and those among them
\* whose release function exists.
Registering ==
  {"addRemove", "addOnly", "OnChange", "OnChangeNoUnsub", "OnItemsChanged",
   "OnItemsChangedNoUnsub", "emitter", "eventTarget"}
Releasing == {"addRemove", "OnChange", "OnItemsChanged", "emitter", "eventTarget"}

\* Largest number of callbacks counted on one channel (the count saturates).
MaxListeners == 2

\* Largest number of rescan requests counted between frames (saturating).
MaxReqs == 2

\* requestAnimationFrame returns a handle from 1..MaxHandle that names no
\* callback in the map and is not the one last returned.  (The HTML
\* standard increments the callback identifier before returning it, so a
\* handle is never 0.)
MaxHandle == 2
Handles == 1..MaxHandle
FreshHandles(w) == Handles \ (w.rafCallbacks \cup {w.rafId})

Min(a, b) == IF a < b THEN a ELSE b

\* cb registered with the channel, and its release closure pushed.
register(w, ch) ==
  [w EXCEPT !.listeners[ch] = Min(@ + 1, MaxListeners),
            !.unsubscribers = Append(@, ch)]

\* private trySubscribe(obj, cb)
trySubscribe(w, ch) ==
  IF hooks[ch] = "null" THEN w
  ELSE IF hooks[ch] \in {"OnChange", "OnChangeNoUnsub"} THEN register(w, ch)
  ELSE IF hooks[ch] \in {"OnItemsChanged", "OnItemsChangedNoUnsub"} THEN register(w, ch)
  ELSE IF hooks[ch] = "emitter" THEN register(w, ch)
  ELSE IF hooks[ch] = "eventTarget" THEN register(w, ch)
  ELSE w

\* private attachGameHookSubscriptions()
attachGameHookSubscriptions(w) ==
  IF ~hooks.em THEN w
  ELSE
    LET w1 == IF hooks.invListener \in {"addRemove", "addOnly"}
              THEN register(w, "invListener")
              ELSE trySubscribe(w, "inv")
        w2 == IF hooks.bankChange \in {"addRemove", "addOnly"}
              THEN register(w1, "bankChange") ELSE w1
        w3 == IF hooks.bankReorg \in {"addRemove", "addOnly"}
              THEN register(w2, "bankReorg") ELSE w2
        w4 == trySubscribe(w3, "bankItems")
    IN trySubscribe(w4, "shop")

\* private attachObserverFallback(): the root is the first item table of the
\* document, document.body if there is none.
attachObserverFallback(w) ==
  LET cs == cellsOf(w.dom) IN
  [w EXCEPT !.observer = IF Len(cs) > 0 THEN Head(cs) ELSE "body",
            !.connected = @ + 1]

\* private injectStyle()
injectStyle(w) ==
  LET w1 == IF w.styleEl THEN [w EXCEPT !.headStyles = @ - 1] ELSE w IN
  [w1 EXCEPT !.styleEl = TRUE, !.headStyles = @ + 1]

\* rescanSoon without the cancelAnimationFrame of the handle it replaces.
rescanSoonNoCancel(w, h) ==
  [w EXCEPT !.rafId = h, !.rafCallbacks = @ \cup {h},
            !.reqs = Min(@ + 1, MaxReqs)]

\* rescanSoon that schedules nothing while a handle is stored
\* (if (this.rafId) return;): the handle stays stored after its frame.
rescanSoonOnce(w, h) ==
  IF w.rafId # 0 THEN [w EXCEPT !.reqs = Min(@ + 1, MaxReqs)]
  ELSE [w EXCEPT !.rafId = h, !.rafCallbacks = @ \cup {h},
                 !.reqs = Min(@ + 1, MaxReqs)]

\* private rescanSoon(), h being the handle requestAnimationFrame returns
rescanSoon(w, h) ==
  LET w1 == IF w.rafId # 0 THEN [w EXCEPT !.rafCallbacks = @ \ {w.rafId}] ELSE w IN
  [w1 EXCEPT !.rafId = h, !.rafCallbacks = @ \cup {h},
             !.reqs = Min(@ + 1, MaxReqs)]

\* The release closure pushed for channel ch, called: it removes the
\* callback when the source has the release function, unless that function
\* throws (hooks.throwing names the channels whose release function does).
callRelease(w, ch) ==
  IF hooks[ch] \notin Releasing THEN w
  ELSE IF ch \in hooks.throwing THEN Throw(w)
  ELSE [w EXCEPT !.listeners[ch] = IF @ > 0 THEN @ - 1 ELSE @]

\* The release closure called outside a try block.
releaseNoCatch(w, ch) == callRelease([w EXCEPT !.calls = @ + 1], ch)

\* try { u(); } catch {}
release(w, ch) ==
  [callRelease([w EXCEPT !.calls = @ + 1], ch) EXCEPT !.threw = FALSE]

\* for (const u of this.unsubscribers.splice(0)) { try { u(); } catch {} }
RECURSIVE releaseAll(_, _)
releaseAll(w, us) ==
  IF Len(us) = 0 \/ w.threw THEN w
  ELSE releaseAll(release(w, Head(us)), Tail(us))

\* Every badge of the document removed.
removeAllBadges(w) ==
  [w EXCEPT !.dom = [c \in DOMAIN w.dom |->
                       [w.dom[c] EXCEPT !.badges = [h \in Hosts |-> <<>>]]],
            !.writes = @ \cup {"remove" : c \in
                                 {c2 \in DOMAIN w.dom :
                                    \E h \in Hosts : Len(w.dom[c2].badges[h]) > 0}},
            !.records = @ \/ \E c \in DOMAIN w.dom :
                               /\ Observed(w, c)
                               /\ \E h \in Hosts : Len(w.dom[c].badges[h]) > 0]

\* stop() without the block that cancels the scheduled scan.
stopNoCancel(w) ==
  LET w1 == releaseAll([w EXCEPT !.started = FALSE, !.unsubscribers = <<>>],
                       w.unsubscribers)
      w2 == IF w1.observer # "null"
            THEN [w1 EXCEPT !.observer = "null", !.connected = @ - 1, !.records = FALSE]
            ELSE w1
      w4 == IF w2.styleEl
            THEN [w2 EXCEPT !.styleEl = FALSE, !.headStyles = @ - 1]
            ELSE w2
  IN IF w1.threw THEN w1 ELSE removeAllBadges(w4)

\* stop()
stop(w) ==
  LET w1 == releaseAll([w EXCEPT !.started = FALSE, !.unsubscribers = <<>>],
                       w.unsubscribers)
      w2 == IF w1.observer # "null"
            THEN [w1 EXCEPT !.observer = "null", !.connected = @ - 1, !.records = FALSE]
            ELSE w1
      w3 == IF w2.rafId # 0
            THEN [w2 EXCEPT !.rafCallbacks = @ \ {w2.rafId}, !.rafId = 0, !.reqs = 0]
            ELSE w2
      w4 == IF w3.styleEl
            THEN [w3 EXCEPT !.styleEl = FALSE, !.headStyles = @ - 1]
            ELSE w3
  IN IF w1.threw THEN w1 ELSE removeAllBadges(w4)

\* start(), h being the handle its rescanSoon() receives
start(w, h) ==
  IF ~w.settings.enable THEN w
  ELSE
    LET w1 == IF w.started THEN stop(w) ELSE w IN
    IF w1.threw THEN w1
    ELSE rescanSoon(
           attachObserverFallback(
             attachGameHookSubscriptions(
               injectStyle([w1 EXCEPT !.started = TRUE]))), h)

(***************************************************************************)
(* Steps                                                                   *)
(*                                                                         *)
(* hist records what the last step did: op its name ("env" for a step of   *)
(* the page or the game), scans the number of executions of rescan(),      *)
(* failed the cells whose applyTag threw, escaped whether an exception     *)
(* left the plugin, writes the kinds of DOM write made, calls the number   *)
(* of release closures called.  reqs counts the rescanSoon() calls not yet *)
(* answered by a frame or cancelled by stop(), and clean says that a scan  *)
(* has completed without a failure and that nothing a scan reads or writes *)
(* has changed since.  Of the state before the step it keeps: answered,    *)
(* the value of reqs a frame found; pending, the number of scheduled       *)
(* callbacks a stop() found; due, the number of release closures it found. *)
(***************************************************************************)

Commit(w, op, clean) ==
  /\ settings' = w.settings
  /\ started' = w.started
  /\ styleEl' = w.styleEl
  /\ observer' = w.observer
  /\ rafId' = w.rafId
  /\ unsubscribers' = w.unsubscribers
  /\ rafCallbacks' = w.rafCallbacks
  /\ headStyles' = w.headStyles
  /\ connected' = w.connected
  /\ records' = w.records
  /\ listeners' = w.listeners
  /\ dom' = w.dom
  /\ hist' = [op |-> op, reqs |-> w.reqs, scans |-> w.scans, failed |-> w.failed,
              escaped |-> w.threw, writes |-> w.writes, calls |-> w.calls,
              clean |-> clean,
              answered |-> IF op = "frame" THEN hist.reqs ELSE 0,
              pending |-> IF op = "stop" THEN Cardinality(rafCallbacks) ELSE 0,
              due |-> IF op = "stop" THEN Len(unsubscribers) ELSE 0]

\* The plugin host calls start().
HostStart ==
  \E h \in FreshHandles(World) :
    /\ Commit(start(World, h), "start", FALSE)
    /\ UNCHANGED <<hooks, sheet, slots>>

\* The plugin host calls stop().
HostStop ==
  /\ Commit(stop(World), "stop", FALSE)
  /\ UNCHANGED <<hooks, sheet, slots>>

\* The user flips the Enable checkbox; its callback starts or stops.
SetEnable ==
  \E h \in FreshHandles(World) :
    LET w == [World EXCEPT !.settings.enable = ~@] IN
    /\ IF w.settings.enable
       THEN Commit(start(w, h), "start", FALSE)
       ELSE Commit(stop(w), "stop", FALSE)
    /\ UNCHANGED <<hooks, sheet, slots>>

ShowWhereOptions == {"Bank Only", "Bank+Bag(Gear Only)", "Bank+Bag(All)"}

\* The user picks another Show Where option; its callback requests a rescan.
SetShowWhere ==
  \E h \in FreshHandles(World) : \E v \in ShowWhereOptions \ {settings.showWhere} :
    /\ Commit(rescanSoon([World EXCEPT !.settings.showWhere = v], h), "setting", FALSE)
    /\ UNCHANGED <<hooks, sheet, slots>>

\* The user flips the checkbox of setting k; its callback requests a rescan.
ToggleCategory(k) ==
  \E h \in FreshHandles(World) :
    /\ Commit(rescanSoon([World EXCEPT !.settings[k] = ~@], h), "setting", FALSE)
    /\ UNCHANGED <<hooks, sheet, slots>>

\* A change source calls a callback the plugin has registered with it.
Notify ==
  \E ch \in Channels : \E h \in FreshHandles(World) :
    /\ listeners[ch] > 0
    /\ Commit(rescanSoon(World, h), "notify", hist.clean)
    /\ UNCHANGED <<hooks, sheet, slots>>

\* The browser delivers the pending mutation records to the observer's
\* callback; every record the model raises is one the callback acts on.
ObserverCallback ==
  \E h \in FreshHandles(World) :
    /\ observer # "null"
    /\ records
    /\ Commit(rescanSoon([World EXCEPT !.records = FALSE], h), "observer", hist.clean)
    /\ UNCHANGED <<hooks, sheet, slots>>

Faults == {"none", "item", "name", "classify", "append", "text"}

\* The callbacks of the animation frame callback map run, one rescan() each.
RECURSIVE runCallbacks(_, _, _)
runCallbacks(w, n, faults) ==
  IF n = 0 \/ w.threw THEN w ELSE runCallbacks(rescan(w, faults), n - 1, faults)

\* A rendering frame; fs are the faults a cell may meet in it.
FrameFires(fs) ==
  \E faults \in [DOMAIN dom -> fs] :
    LET w == runCallbacks([World EXCEPT !.rafCallbacks = {}, !.reqs = 0],
                          Cardinality(rafCallbacks), faults)
        ran == w.scans > 0 /\ settings.enable
    IN /\ Commit(w, "frame",
                 IF ran THEN w.failed = {} /\ ~w.threw ELSE hist.clean)
       /\ UNCHANGED <<hooks, sheet, slots>>

\* A mutation of cell c by the page: the new subtree, and the record the
\* observer is owed.
PageWrites(c, sub) ==
  /\ Commit([World EXCEPT !.dom[c] = sub, !.records = @ \/ Observed(World, c)],
            "env", FALSE)
  /\ UNCHANGED <<hooks, sheet, slots>>

\* The game puts another item (or none) in the slot of cell c.
SlotChanges(its) ==
  \E c \in DOMAIN dom : \E it \in its \ {slots[c]} :
    /\ slots' = [slots EXCEPT ![c] = it]
    /\ Commit(World, "env", FALSE)
    /\ UNCHANGED <<hooks, sheet>>

\* The page sets or clears the data-slot attribute of a cell.
DataSlotChanges ==
  \E c \in DOMAIN dom : PageWrites(c, [dom[c] EXCEPT !.slot = ~@])

\* The page adds an item element to a cell, or removes it with its subtree.
ItemElementChanges ==
  \E c \in DOMAIN dom :
    PageWrites(c,
      IF dom[c].hasItem
      THEN [dom[c] EXCEPT !.hasItem = FALSE,
                          !.amountAt = IF @ = "item" THEN "none" ELSE @,
                          !.badges["item"] = <<>>,
                          !.position["item"] = ""]
      ELSE [dom[c] EXCEPT !.hasItem = TRUE])

\* The page adds, removes or moves the amount element of a cell.
AmountChanges ==
  \E c \in DOMAIN dom :
    \E at \in {"none", "cell"} \cup (IF dom[c].hasItem THEN {"item"} ELSE {}) :
      /\ at # dom[c].amountAt
      /\ PageWrites(c, [dom[c] EXCEPT !.amountAt = at])

(***************************************************************************)
(* Specifications                                                          *)
(***************************************************************************)

\* The values the constructor gives the settings.
DefaultSettings ==
  [enable |-> TRUE, showWhere |-> "Bank+Bag(All)", showRoots |-> TRUE,
   showPotions |-> TRUE, showLogs |-> TRUE, showScrolls |-> TRUE,
   ignoreMagicalScrolls |-> TRUE, showBows |-> TRUE, showJewelry |-> TRUE,
   showGems |-> TRUE, showOres |-> TRUE, showBars |-> TRUE, showDarkItems |-> TRUE]

Hooks(em, invListener, inv, bankChange, bankReorg, bankItems, shop, throwing) ==
  [em |-> em, invListener |-> invListener, inv |-> inv, bankChange |-> bankChange,
   bankReorg |-> bankReorg, bankItems |-> bankItems, shop |-> shop,
   throwing |-> throwing]

\* gameHooks without an EntityManager instance.
NoEntityManager ==
  Hooks(FALSE, "absent", "null", "absent", "absent", "null", "null", {})
\* Every source with a shape whose release function exists and returns.
SoundHooks ==
  Hooks(TRUE, "addRemove", "none", "addRemove", "addRemove", "OnChange", "emitter", {})
\* The same shapes, every release function throwing.
ThrowingHooks ==
  Hooks(TRUE, "addRemove", "none", "addRemove", "addRemove", "OnChange", "emitter",
        Channels)
\* The inventory and _bankItems reached through trySubscribe, no shop open;
\* the first release function throws.
FallbackHooks ==
  Hooks(TRUE, "absent", "OnItemsChanged", "absent", "absent", "eventTarget", "null",
        {"inv"})
\* Sources that take a callback and have no function to release it.
LeakyHooks ==
  Hooks(TRUE, "addOnly", "none", "absent", "addOnly", "OnChangeNoUnsub",
        "OnItemsChangedNoUnsub", {})
\* Sources none of whose shapes trySubscribe knows.
ShapelessHooks ==
  Hooks(TRUE, "absent", "onOnly", "absent", "absent", "none", "null", {})

HookProfiles ==
  {NoEntityManager, SoundHooks, ThrowingHooks, FallbackHooks, LeakyHooks,
   ShapelessHooks}

\* A cell as the page renders it: no badge, no inline position.
PageCell(slot, hasItem, amountAt) ==
  [slot |-> slot, hasItem |-> hasItem, amountAt |-> amountAt,
   badges |-> [h \in Hosts |-> <<>>], position |-> [h \in Hosts |-> ""]]

PageCells ==
  {PageCell(s, i, a) : s \in BOOLEAN, i \in BOOLEAN, a \in {"none", "cell"}}
  \cup {PageCell(s, TRUE, "item") : s \in BOOLEAN}

\* The state the constructor leaves, over the cells, the page and the game
\* state given.
InitWith(cells, pages, sheets, profiles, its) ==
  /\ settings = DefaultSettings
  /\ started = FALSE
  /\ styleEl = FALSE
  /\ observer = "null"
  /\ rafId = 0
  /\ unsubscribers = <<>>
  /\ rafCallbacks = {}
  /\ headStyles = 0
  /\ connected = 0
  /\ records = FALSE
  /\ hooks \in profiles
  /\ sheet \in sheets
  /\ listeners = [ch \in Channels |-> 0]
  /\ slots \in [cells -> its]
  /\ dom \in [cells -> pages]
  /\ hist = [op |-> "init", reqs |-> 0, scans |-> 0, failed |-> {},
             escaped |-> FALSE, writes |-> {}, calls |-> 0, clean |-> FALSE,
             answered |-> 0, pending |-> 0, due |-> 0]

\* Lifecycle and scheduling: one cell holding an item that gets a tag,
\* every profile of change sources, no fault during a scan.
Init ==
  InitWith({"inventory"}, {PageCell(TRUE, TRUE, "item")},
           {[cell |-> "static", item |-> "static"]}, HookProfiles, {ItemLogs})

Next ==
  \/ HostStart
  \/ HostStop
  \/ SetEnable
  \/ ToggleCategory("showLogs")
  \/ Notify
  \/ ObserverCallback
  \/ FrameFires({"none"})

Spec == Init /\ [][Next]_vars

\* Reconciliation: one inventory cell whose structure, slot and item the
\* page and the game change at will; no change source takes a callback and
\* no step of a scan throws.
DomItems == {NoItem, ItemNameless, ItemSword, ItemLogs, ItemPotion}

InitDom ==
  InitWith({"inventory"}, PageCells,
           {[cell |-> "static", item |-> "static"]}, {ShapelessHooks}, DomItems)

NextDom ==
  \/ HostStart
  \/ HostStop
  \/ SetShowWhere
  \/ ObserverCallback
  \/ FrameFires({"none"})
  \/ SlotChanges(DomItems)
  \/ DataSlotChanges
  \/ ItemElementChanges
  \/ AmountChanges

SpecDom == InitDom /\ [][NextDom]_vars

\* Fault isolation: an inventory and a bank cell of fixed structure, whose
\* scans meet faults.
ScanItems == {NoItem, ItemLogs, ItemPotion}

InitScan ==
  InitWith({"inventory", "bank"}, {PageCell(TRUE, TRUE, "item")},
           {[cell |-> "static", item |-> "static"]}, {ShapelessHooks}, ScanItems)

NextScan ==
  \/ HostStart
  \/ ObserverCallback
  \/ FrameFires(Faults)
  \/ SlotChanges(ScanItems)

SpecScan == InitScan /\ [][NextScan]_vars

\* Lifecycle and scheduling with rendering frames that keep firing; the
\* slot holds an item no name resolves for, so a scan finds nothing to tag.
InitLive ==
  InitWith({"inventory"}, {PageCell(TRUE, TRUE, "item")},
           {[cell |-> "static", item |-> "static"]}, HookProfiles, {ItemNameless})

NextLive ==
  \/ HostStart
  \/ HostStop
  \/ SetEnable
  \/ ToggleCategory("showLogs")
  \/ Notify
  \/ ObserverCallback
  \/ FrameFires({"none"})
  \/ DataSlotChanges

SpecLive == InitLive /\ [][NextLive]_vars /\ WF_vars(FrameFires({"none"}))

\* Scopes: an inventory and a bank cell holding an item that gets a tag; the
\* user changes Show Where and the page moves the amount elements.
InitScope ==
  InitWith({"inventory", "bank"}, {PageCell(TRUE, TRUE, "item")},
           {[cell |-> "static", item |-> "static"]}, {ShapelessHooks}, {ItemLogs})

NextScope ==
  \/ HostStart
  \/ HostStop
  \/ SetShowWhere
  \/ ObserverCallback
  \/ FrameFires({"none"})
  \/ AmountChanges

SpecScope == InitScope /\ [][NextScope]_vars

\* The classifier alone: deriveTag applied to a name and an allowed set,
\* under every combination of the category settings.  hist holds the call
\* and its result.
GearOnly == {"dark", "jewelry", "potion"}

CategoryFlags ==
  {"showDarkItems", "showPotions", "showLogs", "showRoots", "showScrolls",
   "showBows", "showOres", "showBars", "showJewelry", "showGems"}

TagSettings ==
  {[k \in DOMAIN DefaultSettings |->
      IF k \in on THEN TRUE
      ELSE IF k \in CategoryFlags \cup {"ignoreMagicalScrolls"} THEN FALSE
      ELSE DefaultSettings[k]] :
     on \in SUBSET (CategoryFlags \cup {"ignoreMagicalScrolls"})}

\* Names of the forms the rules of deriveTag match.
PotionName(type, doses) == "Potion of " \o type \o " (" \o doses \o ")"
SuffixName(prefix, word) == IF prefix = "" THEN word ELSE prefix \o " " \o word

PotionTypes == {"Fishing", "Unknown Stuff", "defense", "Lucky"}
PotionDoses == {"1", "4", "12"}
ScrollPrefixes == {"", "Fire", "water", "Magic", "Pine", "Cherry", "Oak"}
RootPrefixes == {"", "Fiji", "maui", "Ginger"}

TagNames ==
  {"Coronium Full Helm", "Gold Ruby Necklace", "Silver Opal Necklace",
   "Monk's Necklace", "Pine Logs", "logs", "Iron Ore", "Coal", "Gold Nugget",
   "Iron Bar", "Pig Iron Bar", "Pine Bow", "Unstrung Wooden Bow", "Rough Ruby",
   "Ruby Gem", "Rough Pine Logs", "Bronze Sword"}
  \cup {PotionName(t, d) : t \in PotionTypes, d \in PotionDoses}
  \cup {SuffixName(p, w) : p \in ScrollPrefixes, w \in {"Scroll", "scrolls"}}
  \cup {SuffixName(p, w) : p \in RootPrefixes, w \in {"Root", "roots"}}

InitTag ==
  /\ settings \in TagSettings
  /\ started = FALSE
  /\ styleEl = FALSE
  /\ observer = "null"
  /\ rafId = 0
  /\ unsubscribers = <<>>
  /\ rafCallbacks = {}
  /\ headStyles = 0
  /\ connected = 0
  /\ records = FALSE
  /\ hooks = ShapelessHooks
  /\ sheet = [cell |-> "static", item |-> "static"]
  /\ listeners = [ch \in Channels |-> 0]
  /\ slots = [c \in {"inventory"} |-> NoItem]
  /\ dom = [c \in {"inventory"} |-> PageCell(TRUE, TRUE, "item")]
  /\ hist = [op |-> "init", name |-> "", allowed |-> Undefined, tag |-> ""]

\* this.deriveTag(name, allowed), as applyTag calls it; one call is made
\* under each value of the settings.
DeriveTag ==
  \E name \in TagNames : \E allowed \in {Undefined, GearOnly} :
    /\ hist.op = "init"
    /\ hist' = [op |-> "deriveTag", name |-> name, allowed |-> allowed,
                tag |-> deriveTag(name, allowed)]
    /\ UNCHANGED <<settings, started, styleEl, observer, rafId, unsubscribers,
                   rafCallbacks, headStyles, connected, records, hooks, sheet,
                   listeners, slots, dom>>

NextTag == DeriveTag

SpecTag == InitTag /\ [][NextTag]_vars

(***************************************************************************)
(* Properties                                                              *)
(***************************************************************************)

\* Badge elements in the document, and in one cell.
BadgesIn(c) == Len(dom[c].badges["cell"]) + Len(dom[c].badges["item"])
NoBadges == \A c \in DOMAIN dom : BadgesIn(c) = 0

\* C1: immediately after stop() returns, no badge element remains in the
\* document and no callback of the plugin remains registered with any change
\* source, whatever subscription shape the source exposed.  (Stated for the
\* sources none of whose release functions throws.)
TeardownLeavesNothing ==
  (hist.op = "stop" /\ hooks.throwing = {})
  => NoBadges /\ \A ch \in Channels : listeners[ch] = 0

\* C2: in every reachable state each item cell contains at most one badge
\* element and no host element has more than one badge child.
OneBadgePerCell ==
  \A c \in DOMAIN dom :
    /\ BadgesIn(c) <= 1
    /\ \A h \in Hosts : Len(dom[c].badges[h]) <= 1

\* The tag the classifier gives the cell in the current state, "" when the
\* cell has no data-slot, no item, no name, or no tag.
Verdict(c) ==
  IF ~dom[c].slot \/ resolveItemFromCell(c).null THEN ""
  ELSE LET name == resolveItemName(resolveItemFromCell(c)) IN
       IF name = "" THEN ""
       ELSE IF settings.showWhere = "Bank Only" /\ c \in {"inventory", "shop"} THEN ""
       ELSE deriveTag(name, allowedFor(c))

\* C3: after a scan in which no exception occurs every cell matches the
\* classifier's verdict: a cell without a tag contains no badge, and the host
\* of a cell with a tag has a badge whose text is formatTag of the tag.
ScanMatchesVerdict ==
  (hist.op = "frame" /\ hist.scans > 0 /\ settings.enable /\ hist.failed = {}
     /\ ~hist.escaped)
  => \A c \in DOMAIN dom :
       IF Verdict(c) = "" THEN BadgesIn(c) = 0
       ELSE LET kids == dom[c].badges[getTagHost(dom, c)] IN
            Len(kids) > 0 /\ kids[1].text = formatTag(Verdict(c))

\* C4: at most one scheduled scan is pending at any time, and a frame runs
\* rescan() exactly once when rescanSoon() was called since the last frame
\* (and not cancelled by stop()), whatever the number of calls, and not at
\* all otherwise.
RescanCoalesced ==
  /\ Cardinality(rafCallbacks) <= 1
  /\ hist.op = "frame" => hist.scans = (IF hist.answered > 0 THEN 1 ELSE 0)

\* A frame that answered two or more requests with one scan.
RescanCoalescedWitness ==
  hist.op = "frame" /\ hist.answered >= 2 /\ hist.scans = 1

\* C5: when stop() returns no scheduled scan is pending, whatever handle
\* the scan it found pending had: the callback is out of the frame callback
\* map, the handle is forgotten and no request is left to answer.
StopCancelsPendingScan ==
  hist.op = "stop" => rafCallbacks = {} /\ rafId = 0 /\ hist.reqs = 0

\* stop() found a scan pending and cancelled it.
StopCancelsPendingScanWitness ==
  hist.op = "stop" /\ hist.pending = 1 /\ rafCallbacks = {}

\* C6: a scan that follows a scan without failure, nothing it reads having
\* changed in between, performs no DOM write at all and leaves the document
\* as it found it.
SecondScanWritesNothing ==
  [][(hist.clean /\ hist'.op = "frame" /\ hist'.scans > 0 /\ hist'.failed = {})
       => hist'.writes = {} /\ dom' = dom]_vars

\* The document a scan of the current state leaves when no cell meets a fault.
FaultFreeScan ==
  rescan([World EXCEPT !.rafCallbacks = {}, !.reqs = 0],
         [c \in DOMAIN dom |-> "none"]).dom

\* C7: when steps of applyTag throw for some cells of a scan, nothing is
\* thrown out of rescan(), and every other cell ends as it would have ended
\* had no cell thrown.
FaultIsolation ==
  [][(hist'.op = "frame" /\ hist'.scans > 0)
       => /\ ~hist'.escaped
          /\ \A c \in DOMAIN dom \ hist'.failed : dom'[c] = FaultFreeScan[c]]_vars

\* The first cell of a scan threw before it got a badge, and the scan went
\* on to create the badge of the second.
FaultIsolationWitness ==
  /\ hist.op = "frame" /\ hist.failed = {"inventory"}
  /\ "create" \in hist.writes
  /\ BadgesIn("inventory") = 0
  /\ Len(dom["bank"].badges["item"]) = 1

\* C8: stop() calls every release closure it found, whether or not release
\* functions throw, and completes: the list is empty, the observer
\* disconnected, the scheduled scan cancelled, the style element and every
\* badge removed, and nothing is thrown.
StopCompletesDespiteThrows ==
  hist.op = "stop"
  => /\ hist.calls = hist.due
     /\ ~hist.escaped
     /\ ~started
     /\ unsubscribers = <<>>
     /\ observer = "null" /\ connected = 0
     /\ rafCallbacks = {}
     /\ ~styleEl /\ headStyles = 0
     /\ NoBadges

\* A stop() all of whose release functions threw, with a scan pending.
StopCompletesDespiteThrowsWitness ==
  /\ hist.op = "stop" /\ hooks = ThrowingHooks
  /\ hist.due >= 2 /\ hist.calls = hist.due
  /\ hist.pending = 1

\* C9: after stop() the document is as it was before start(): no injected
\* style element, no badge, no inline position style on a host.
StopRestoresDocument ==
  hist.op = "stop"
  => /\ headStyles = 0
     /\ NoBadges
     /\ \A c \in DOMAIN dom : \A h \in Hosts : dom[c].position[h] = ""

\* What a cell's subtree holds apart from the plugin's badges and inline
\* styles: the data-slot attribute, the item element, the amount element and
\* its parent.
PageElements(cell) ==
  [slot |-> cell.slot, hasItem |-> cell.hasItem, amountAt |-> cell.amountAt]

\* C10 as stated: a step of the plugin inserts and removes nothing but its
\* style element and its badges, and leaves every cell, item element and
\* amount element as it was, inline style included.
PluginTouchesOnlyItsOwn ==
  [][hist'.op # "env"
       => \A c \in DOMAIN dom :
            /\ PageElements(dom'[c]) = PageElements(dom[c])
            /\ dom'[c].position = dom[c].position]_vars

\* C10: a step of the plugin inserts and removes nothing but its style
\* element and its badges, never removes or moves a cell, an item element or
\* an amount element; the one thing it writes to an element of the page is
\* the inline style position: relative, on the host of a badge it creates, when
\* the host's computed position is static.
PluginWritesOnlyHostPosition ==
  [][hist'.op # "env"
       => \A c \in DOMAIN dom :
            /\ PageElements(dom'[c]) = PageElements(dom[c])
            /\ \A h \in Hosts :
                 dom'[c].position[h] # dom[c].position[h]
                 => /\ hist'.op = "frame"
                    /\ h = getTagHost(dom, c)
                    /\ Len(dom[c].badges[h]) = 0
                    /\ computedPosition(dom, c, h) = "static"
                    /\ dom'[c].position[h] = "relative"]_vars

\* A scan that removed a stale badge from a host that holds the amount
\* element and whose position it had set earlier.
PluginWritesOnlyHostPositionWitness ==
  /\ hist.op = "frame" /\ "remove" \in hist.writes
  /\ \E c \in DOMAIN dom :
       /\ dom[c].amountAt = getTagHost(dom, c)
       /\ dom[c].position[getTagHost(dom, c)] = "relative"
       /\ BadgesIn(c) = 0

\* The categories of deriveTag, the setting that enables each, and whether
\* a name matches the pattern of a category's rule.
Categories ==
  {"dark", "potion", "logs", "root", "scroll", "bow", "ore", "bar", "jewelry", "gem"}

FlagOf(cat) ==
  CASE cat = "dark" -> "showDarkItems" [] cat = "potion" -> "showPotions"
    [] cat = "logs" -> "showLogs" [] cat = "root" -> "showRoots"
    [] cat = "scroll" -> "showScrolls" [] cat = "bow" -> "showBows"
    [] cat = "ore" -> "showOres" [] cat = "bar" -> "showBars"
    [] cat = "jewelry" -> "showJewelry" [] cat = "gem" -> "showGems"

Matches(cat, name) ==
  LET n == trim(name) IN
  CASE cat = "dark" -> Lookup(DARK, toLowerCase(n)) # ""
    [] cat = "potion" -> potionMatch(n)
    [] cat = "logs" -> logsMatch(n)
    [] cat = "root" -> rootSuffix(n) # ""
    [] cat = "scroll" -> scrollMatch(n)
    [] cat = "bow" -> bowMatch(n)
    [] cat = "ore" -> toLowerCase(n) = "coal" \/ nuggetMetal(n) # "" \/ SuffixMatch(n, "ore")
    [] cat = "bar" -> pigIronBar(n) \/ SuffixMatch(n, "bar")
    [] cat = "jewelry" -> monkNecklace(n) \/ jewMetal(n) # ""
    [] cat = "gem" -> roughMatch(n) \/ SuffixMatch(n, "gem")

\* C11: under the Gear-Only allowed set a name matching the dark, potion or
\* jewelry rule with that category enabled gets the tag it gets without the
\* filter, whatever the other category flags, and a name matching only rules
\* of the other categories gets no tag.
GearOnlyGating ==
  (hist.op = "deriveTag" /\ hist.allowed = GearOnly)
  => /\ (\E cat \in GearOnly : Matches(cat, hist.name) /\ settings[FlagOf(cat)])
        => hist.tag = deriveTag(hist.name, Undefined)
     /\ (/\ \E cat \in Categories \ GearOnly : Matches(cat, hist.name)
         /\ \A cat \in GearOnly : ~Matches(cat, hist.name))
        => hist.tag = ""

\* C13: a name that matches the rule of one category only gets no tag when
\* that category's flag is off, whatever the other flags and the allowed set.
CategoryDisable ==
  hist.op = "deriveTag"
  => LET matched == {cat \in Categories : Matches(cat, hist.name)} IN
     (\E cat \in matched : matched = {cat} /\ ~settings[FlagOf(cat)])
     => hist.tag = ""

\* A gem name classified with gems off and every other category on.
CategoryDisableWitness ==
  /\ hist.op = "deriveTag" /\ hist.name = "Ruby Gem" /\ hist.allowed = Undefined
  /\ \A cat \in Categories : settings[FlagOf(cat)] <=> cat # "gem"
  /\ hist.tag = ""

\* The tags the scroll rule is to give the sample prefixes, and those of the
\* prefixes that are in the magical vocabulary.
ScrollTags ==
  ("" :> "Norm") @@ ("Fire" :> "Fire") @@ ("water" :> "Wat") @@ ("Magic" :> "Mag")
  @@ ("Pine" :> "Pine") @@ ("Cherry" :> "Che") @@ ("Oak" :> "Oak")
MagicalPrefixes == {"Fire", "water", "Magic"}

ScrollTagFor(p) ==
  IF p \in MagicalPrefixes /\ settings.ignoreMagicalScrolls THEN "" ELSE ScrollTags[p]

RootTags ==
  ("" :> "Norm") @@ ("Fiji" :> "Fiji") @@ ("maui" :> "Maui") @@ ("Ginger" :> "Gin")

\* C15: with roots enabled (and the category not filtered out) a name
\* '<prefix> root' or '<prefix> roots' gets the override of the prefix, else
\* capitalize3 of the prefix, and "Norm" when the prefix is empty.
RootRule ==
  (hist.op = "deriveTag" /\ hist.allowed = Undefined /\ settings.showRoots)
  => \A p \in RootPrefixes : \A w \in {"Root", "roots"} :
       hist.name = SuffixName(p, w) => hist.tag = RootTags[p]

\* The abbreviations the potion rule is to give the sample types.
PotionTags ==
  ("Fishing" :> "Fish") @@ ("Unknown Stuff" :> "Unk") @@ ("defense" :> "Def")
  @@ ("Lucky" :> "Luck")

\* C16: with potions enabled 'Potion of <type> (<doses>)' gets the tag
\* '<abbr> (<doses>)', abbr being the synonym of the type or capitalize3 of
\* it and the doses copied unchanged, with or without the Gear-Only filter.
PotionRule ==
  (hist.op = "deriveTag" /\ settings.showPotions)
  => \A t \in PotionTypes : \A d \in PotionDoses :
       hist.name = PotionName(t, d)
       => hist.tag = PotionTags[t] \o " (" \o d \o ")"

\* The two potion names of the specification, classified.
PotionRuleWitness ==
  /\ hist.op = "deriveTag" /\ settings.showPotions
  /\ \/ hist.name = "Potion of Fishing (4)" /\ hist.tag = "Fish (4)"
        /\ hist.allowed = Undefined /\ ~settings.showDarkItems
     \/ hist.name = "Potion of Unknown Stuff (1)" /\ hist.tag = "Unk (1)"
        /\ hist.allowed = GearOnly /\ settings.showOres

\* C12: after a scan under 'Bank Only' no inventory cell and no shop cell
\* contains a badge, and a bank cell carries the tag the full set of enabled
\* categories gives its item; under 'Bank+Bag(All)' every cell does.
ScopeSelectsCells ==
  (hist.op = "frame" /\ hist.scans > 0 /\ settings.enable /\ hist.failed = {})
  => \A c \in DOMAIN dom :
       LET full == deriveTag(resolveItemName(resolveItemFromCell(c)), Undefined)
           kids == dom[c].badges[getTagHost(dom, c)]
       IN /\ (settings.showWhere = "Bank Only" /\ c \in {"inventory", "shop"})
             => BadgesIn(c) = 0
          /\ (\/ settings.showWhere = "Bank+Bag(All)"
              \/ settings.showWhere = "Bank Only" /\ c = "bank")
             => Len(kids) > 0 /\ kids[1].text = formatTag(full)

\* C17: while the plugin is started a rescan request is followed by an
\* execution of rescan() at a frame, unless the plugin is stopped first.
ScanEventuallyRuns ==
  (started /\ hist.reqs > 0) ~> ((hist.op = "frame" /\ hist.scans > 0) \/ ~started)

\* A frame that ran the one scan of a started plugin after the request had
\* been made again.
ScanEventuallyRunsWitness ==
  started /\ hist.op = "frame" /\ hist.answered >= 2 /\ hist.scans = 1

\* C18: while started, a mutation by the page inside any item table leaves
\* the observer a record to deliver, that is, enqueues a rescan.
ObserverCoversAllTables ==
  [][(started /\ observer # "null" /\ hist'.op = "env" /\ dom' # dom) => records']_vars

\* C19: while the plugin is stopped no badge is in the document: no scan
\* that a trigger arriving in that interval schedules creates one.
StoppedMeansNoBadge == ~started => NoBadges

\* Entries of the unsubscriber list for a channel.
Entries(ch) == Cardinality({i \in DOMAIN unsubscribers : unsubscribers[i] = ch})

\* C20: at most one injected style element, at most one connected observer,
\* at most one callback of the plugin on each channel, and while started one
\* unsubscriber entry for each callback.  (Stated for the sources none of
\* whose release functions throws.)
NoDuplicateResources ==
  hooks.throwing = {}
  => /\ headStyles <= 1
     /\ connected <= 1
     /\ \A ch \in Channels :
          /\ listeners[ch] <= 1
          /\ started => listeners[ch] = Entries(ch)

\* The writes of a scan the observer is told of: child-list changes.
Reported == {"create", "remove", "text"}

\* C21: a scan that follows a scan without failure, nothing it reads having
\* changed in between (the scan the badge insertions and removals of the
\* first one cause through the observer), makes no mutation the observer
\* reports, raises no record, and leaves no scan scheduled; when the records
\* of the first scan had been delivered, none is left pending either.
FeedbackLoopQuiesces ==
  [][(hist.clean /\ hist'.op = "frame" /\ hist'.scans > 0 /\ hist'.failed = {})
       => /\ hist'.writes \cap Reported = {}
          /\ records' = records
          /\ rafCallbacks' = {}
          /\ hist.op = "observer" => ~records']_vars

\* The scan after the one that made the badge has run: it found the badge,
\* wrote nothing but styles, and nothing is pending.
FeedbackLoopQuiescesWitness ==
  /\ started /\ hist.op = "frame" /\ hist.scans = 1 /\ hist.clean
  /\ hist.writes = {"style"}
  /\ BadgesIn("inventory") = 1
  /\ ~records /\ rafCallbacks = {}

====
